---- MODULE Spec2Model ----
(***************************************************************************)
(* Model of the snipit-vscode extension: the client-side encryption        *)
(* utilities (src/utils/encryption.ts), the snipit.sh API client           *)
(* (src/api/snipit.ts) and the share command (src/commands/share.ts).      *)
(*                                                                         *)
(* A JavaScript string is a sequence of UTF-16 code units (numbers         *)
(* 0..65535); a Buffer is a sequence of bytes (numbers 0..255).  Base64    *)
(* text is therefore a sequence of character codes, as every other string. *)
(***************************************************************************)
EXTENDS Integers, Sequences, FiniteSets, TLC

\* src/utils/encryption.ts:4-6
KEY_LENGTH == 32
IV_LENGTH == 12
TAG_LENGTH == 16
\* src/utils/encryption.ts:105  crypto.randomBytes(16)
SALT_LENGTH == 16

\* Longest plaintext (in UTF-16 code units) and longest run of encryptions.
MaxLen == 2
MaxCalls == 2

None == [none |-> TRUE]

(***************************************************************************)
(* Sequence helpers                                                        *)
(***************************************************************************)
SumSeq(s) ==
  LET RECURSIVE S(_)
      S(i) == IF i > Len(s) THEN 0 ELSE (s[i] + S(i + 1)) % 256
  IN S(1)

Range(s) == {s[i] : i \in 1..Len(s)}

StringsUpTo(units, n) == UNION {[1..k -> units] : k \in 0..n}

(***************************************************************************)
(* UTF-8: what Node does for the 'utf8' input encoding of cipher.update    *)
(* and for the 'utf8' output encoding of decipher.update / final.          *)
(***************************************************************************)
IsHigh(u) == u >= 55296 /\ u <= 56319
IsLow(u) == u >= 56320 /\ u <= 57343

\* A string with no unpaired surrogate code unit.
RECURSIVE WellFormedFrom(_, _)
WellFormedFrom(s, i) ==
  IF i > Len(s) THEN TRUE
  ELSE IF IsHigh(s[i])
    THEN i < Len(s) /\ IsLow(s[i + 1]) /\ WellFormedFrom(s, i + 2)
  ELSE IF IsLow(s[i]) THEN FALSE
  ELSE WellFormedFrom(s, i + 1)

IsWellFormed(s) == WellFormedFrom(s, 1)

\* String -> bytes.  An unpaired surrogate is written as U+FFFD (EF BF BD).
RECURSIVE Utf8EncodeFrom(_, _)
Utf8EncodeFrom(s, i) ==
  IF i > Len(s) THEN <<>>
  ELSE LET u == s[i] IN
    IF u < 128 THEN <<u>> \o Utf8EncodeFrom(s, i + 1)
    ELSE IF u < 2048
      THEN <<192 + (u \div 64), 128 + (u % 64)>> \o Utf8EncodeFrom(s, i + 1)
    ELSE IF IsHigh(u) /\ i < Len(s) /\ IsLow(s[i + 1])
      THEN LET cp == 65536 + (u - 55296) * 1024 + (s[i + 1] - 56320) IN
           <<240 + (cp \div 262144), 128 + ((cp \div 4096) % 64),
             128 + ((cp \div 64) % 64), 128 + (cp % 64)>>
             \o Utf8EncodeFrom(s, i + 2)
    ELSE IF IsHigh(u) \/ IsLow(u)
      THEN <<239, 191, 189>> \o Utf8EncodeFrom(s, i + 1)
    ELSE <<224 + (u \div 4096), 128 + ((u \div 64) % 64), 128 + (u % 64)>>
           \o Utf8EncodeFrom(s, i + 1)

Utf8Encode(s) == Utf8EncodeFrom(s, 1)

IsCont(b) == b >= 128 /\ b <= 191

\* Bytes -> string.  A byte that starts no valid sequence becomes U+FFFD.
RECURSIVE Utf8DecodeFrom(_, _)
Utf8DecodeFrom(b, i) ==
  IF i > Len(b) THEN <<>>
  ELSE LET c == b[i] IN
    IF c < 128 THEN <<c>> \o Utf8DecodeFrom(b, i + 1)
    ELSE IF c >= 194 /\ c <= 223 /\ i + 1 <= Len(b) /\ IsCont(b[i + 1])
      THEN <<(c - 192) * 64 + (b[i + 1] - 128)>> \o Utf8DecodeFrom(b, i + 2)
    ELSE IF /\ c >= 224 /\ c <= 239 /\ i + 2 <= Len(b)
            /\ IsCont(b[i + 1]) /\ IsCont(b[i + 2])
            /\ LET cp == (c - 224) * 4096 + (b[i + 1] - 128) * 64 + (b[i + 2] - 128)
               IN cp >= 2048 /\ ~IsHigh(cp) /\ ~IsLow(cp)
      THEN <<(c - 224) * 4096 + (b[i + 1] - 128) * 64 + (b[i + 2] - 128)>>
             \o Utf8DecodeFrom(b, i + 3)
    ELSE IF /\ c >= 240 /\ c <= 244 /\ i + 3 <= Len(b)
            /\ IsCont(b[i + 1]) /\ IsCont(b[i + 2]) /\ IsCont(b[i + 3])
            /\ LET cp == (c - 240) * 262144 + (b[i + 1] - 128) * 4096
                           + (b[i + 2] - 128) * 64 + (b[i + 3] - 128)
               IN cp >= 65536 /\ cp <= 1114111
      THEN LET cp == (c - 240) * 262144 + (b[i + 1] - 128) * 4096
                       + (b[i + 2] - 128) * 64 + (b[i + 3] - 128)
           IN <<55296 + ((cp - 65536) \div 1024), 56320 + ((cp - 65536) % 1024)>>
                \o Utf8DecodeFrom(b, i + 4)
    ELSE <<65533>> \o Utf8DecodeFrom(b, i + 1)

Utf8Decode(b) == Utf8DecodeFrom(b, 1)

(***************************************************************************)
(* Base64: Buffer.toString('base64') and Buffer.from(str, 'base64').       *)
(* Character codes: '+' 43, '-' 45, '/' 47, '=' 61, '_' 95.                *)
(***************************************************************************)
B64Char(v) ==
  IF v < 26 THEN 65 + v
  ELSE IF v < 52 THEN 97 + (v - 26)
  ELSE IF v < 62 THEN 48 + (v - 52)
  ELSE IF v = 62 THEN 43
  ELSE 47

\* The 6-bit value of a character, -1 for a character outside the alphabet.
\* Node's decoder reads the URL-safe characters '-' and '_' as well.
B64Value(c) ==
  IF c >= 65 /\ c <= 90 THEN c - 65
  ELSE IF c >= 97 /\ c <= 122 THEN c - 97 + 26
  ELSE IF c >= 48 /\ c <= 57 THEN c - 48 + 52
  ELSE IF c = 43 \/ c = 45 THEN 62
  ELSE IF c = 47 \/ c = 95 THEN 63
  ELSE -1

\* buffer.toString('base64'): four characters per group of three bytes, the
\* last group padded with '='.
Base64Encode(b) ==
  LET n == Len(b)
      At(k) == IF k <= n THEN b[k] ELSE 0
      Char(j) ==
        LET g == 3 * ((j - 1) \div 4)
            r == (j - 1) % 4
        IN IF r = 0 THEN B64Char(At(g + 1) \div 4)
           ELSE IF r = 1 THEN B64Char((At(g + 1) % 4) * 16 + (At(g + 2) \div 16))
           ELSE IF r = 2
             THEN (IF g + 2 > n THEN 61
                   ELSE B64Char((At(g + 2) % 16) * 4 + (At(g + 3) \div 64)))
           ELSE (IF g + 3 > n THEN 61 ELSE B64Char(At(g + 3) % 64))
  IN SubSeq([j \in 1..(4 * ((n + 2) \div 3)) |-> Char(j)], 1, 4 * ((n + 2) \div 3))

\* The text Node's decoder reads: it stops at the first '='.
B64BeforePad(s) ==
  IF \E i \in 1..Len(s) : s[i] = 61
    THEN SubSeq(s, 1, (CHOOSE i \in 1..Len(s) :
                         s[i] = 61 /\ \A j \in 1..(i - 1) : s[j] # 61) - 1)
  ELSE s

IsB64Char(c) == B64Value(c) >= 0

\* Buffer.from(str, 'base64'): characters outside the alphabet are skipped; a
\* last group of two or three characters gives one or two bytes, a single
\* left-over character gives none.
Base64Decode(s) ==
  LET c == SelectSeq(B64BeforePad(s), IsB64Char)
      n == (3 * Len(c)) \div 4
      V(k) == IF k <= Len(c) THEN B64Value(c[k]) ELSE 0
      Byte(i) ==
        LET g == 4 * ((i - 1) \div 3)
            r == (i - 1) % 3
        IN IF r = 0 THEN V(g + 1) * 4 + (V(g + 2) \div 16)
           ELSE IF r = 1 THEN (V(g + 2) % 16) * 16 + (V(g + 3) \div 4)
           ELSE (V(g + 3) % 4) * 64 + V(g + 4)
  IN SubSeq([i \in 1..n |-> Byte(i)], 1, n)

\* str.replace(/x/g, 'y') for single characters x and y.
ReplaceAll(s, x, y) ==
  SubSeq([i \in 1..Len(s) |-> IF s[i] = x THEN y ELSE s[i]], 1, Len(s))

IsNotPad(c) == c # 61

\* toBase64Url that writes '_' for '+' as well as for '/'.
toBase64Url_PlusAsUnderscore(buffer) ==
  SelectSeq(ReplaceAll(ReplaceAll(Base64Encode(buffer), 43, 95), 47, 95), IsNotPad)

\* toBase64Url that leaves the padding in place.
toBase64Url_KeepPad(buffer) ==
  ReplaceAll(ReplaceAll(Base64Encode(buffer), 43, 45), 47, 95)

toBase64Url(buffer) ==
  SelectSeq(ReplaceAll(ReplaceAll(Base64Encode(buffer), 43, 45), 47, 95), IsNotPad)

\* while (base64.length % 4) base64 += '='
PadTo4(s) == s \o [i \in 1..((4 - (Len(s) % 4)) % 4) |-> 61]

fromBase64Url(str) ==
  Base64Decode(PadTo4(ReplaceAll(ReplaceAll(str, 45, 43), 95, 47)))

(***************************************************************************)
(* The Node crypto library, as the extension uses it.  The random source   *)
(* is ideal: the d-th draw returns bytes no other draw returns.  PBKDF2    *)
(* and the GCM tag are ideal too: over the inputs explored here they have  *)
(* no collisions, and a change of any single byte of the key, the nonce or *)
(* the ciphertext changes the tag.                                         *)
(***************************************************************************)
\* crypto.randomBytes(n), d being the number of draws made before this one.
RandomBytes(n, d) == [i \in 1..n |-> (41 * d + 7 * i + 13) % 256]

\* crypto.pbkdf2Sync(password, salt, 100000, KEY_LENGTH, 'sha256'): the
\* password string is read as UTF-8.
Pbkdf2(password, salt, keylen) ==
  LET pw == Utf8Encode(password)
      material == <<Len(salt)>> \o salt \o <<Len(pw)>> \o pw
  IN [i \in 1..keylen |->
        ((IF i <= Len(material) THEN 3 * material[i] ELSE 0) + 17 * i + 101) % 256]

\* Weighted sum of the bytes of s that fall on tag position j.
TagLane(s, j) ==
  LET RECURSIVE L(_)
      L(i) == IF i > Len(s) THEN 0
              ELSE (((2 * ((i - 1) \div TAG_LENGTH) + 1) * s[i]) + L(i + TAG_LENGTH)) % 256
  IN L(j)

GcmTag(key, iv, ciphertext) ==
  [j \in 1..TAG_LENGTH |->
     (TagLane(key, j) + 5 * TagLane(iv, j) + 7 * TagLane(ciphertext, j)
        + Len(ciphertext) + 29 * j) % 256]

\* The keystream byte at position i, from the digest k of key and nonce.
GcmKeystreamSeed(key, iv) == (3 * SumSeq(key) + 5 * SumSeq(iv) + 91) % 256
GcmKeystream(k, i) == (k + 17 * i) % 256

\* createCipheriv('aes-256-gcm', key, iv, {authTagLength}) + update + final +
\* getAuthTag: the ciphertext is as long as the plaintext.
GcmSeal(key, iv, plaintext) ==
  LET k == GcmKeystreamSeed(key, iv)
      ct == [i \in 1..Len(plaintext) |-> (plaintext[i] + GcmKeystream(k, i)) % 256]
  IN [ciphertext |-> ct, tag |-> GcmTag(key, iv, ct)]

Ok(v) == [ok |-> TRUE, value |-> v]
Err(e) == [ok |-> FALSE, error |-> e]

AuthenticationFailure == "Unsupported state or unable to authenticate data"

\* decipher.update: the bytes it hands out before the tag is verified.
GcmUpdate(key, iv, ciphertext) ==
  LET k == GcmKeystreamSeed(key, iv)
  IN [i \in 1..Len(ciphertext) |-> (ciphertext[i] + 256 - GcmKeystream(k, i)) % 256]

\* createDecipheriv + setAuthTag + update + final; final throws when the tag
\* does not verify.
GcmOpen(key, iv, tag, ciphertext) ==
  IF Len(key) # KEY_LENGTH THEN Err("Invalid key length")
  ELSE IF Len(iv) = 0 THEN Err("Invalid initialization vector")
  ELSE IF Len(tag) # TAG_LENGTH THEN Err("Invalid authentication tag length")
  ELSE IF tag # GcmTag(key, iv, ciphertext) THEN Err(AuthenticationFailure)
  ELSE Ok(GcmUpdate(key, iv, ciphertext))

(***************************************************************************)
(* src/utils/encryption.ts                                                 *)
(***************************************************************************)
\* generateKey asking for as many bytes as a nonce has.
generateKey_IvLength(d) == RandomBytes(IV_LENGTH, d)

generateKey(d) == RandomBytes(KEY_LENGTH, d)

EncryptedData(ciphertext, iv, tag) ==
  [ciphertext |-> Base64Encode(ciphertext), iv |-> Base64Encode(iv),
   tag |-> Base64Encode(tag)]

\* encrypt reading the content as 'latin1' instead of 'utf8'.
encrypt_Latin1(content, d) ==
  LET key == generateKey(d)
      iv == RandomBytes(IV_LENGTH, d + 1)
      sealed == GcmSeal(key, iv, [i \in 1..Len(content) |-> content[i] % 256])
  IN [encrypted |-> EncryptedData(sealed.ciphertext, iv, sealed.tag),
      key |-> toBase64Url(key)]

\* encrypt with a nonce drawn once and kept for every call.
encrypt_CachedIv(content, d) ==
  LET key == generateKey(d)
      iv == RandomBytes(IV_LENGTH, 1)
      sealed == GcmSeal(key, iv, Utf8Encode(content))
  IN [encrypted |-> EncryptedData(sealed.ciphertext, iv, sealed.tag),
      key |-> toBase64Url(key)]

\* encrypt(content); d is the number of random draws made so far.
encrypt(content, d) ==
  LET key == generateKey(d)
      iv == RandomBytes(IV_LENGTH, d + 1)
      sealed == GcmSeal(key, iv, Utf8Encode(content))
  IN [encrypted |-> EncryptedData(sealed.ciphertext, iv, sealed.tag),
      key |-> toBase64Url(key)]

\* decrypt that keeps what update returned when final throws.
decrypt_SwallowFinal(encrypted, keyBase64Url) ==
  LET key == fromBase64Url(keyBase64Url)
      iv == Base64Decode(encrypted.iv)
      tag == Base64Decode(encrypted.tag)
      ct == Base64Decode(encrypted.ciphertext)
      opened == GcmOpen(key, iv, tag, ct)
  IN IF opened.ok THEN Ok(Utf8Decode(opened.value))
     ELSE IF opened.error = AuthenticationFailure
       THEN Ok(Utf8Decode(GcmUpdate(key, iv, ct)))
     ELSE opened

decrypt(encrypted, keyBase64Url) ==
  LET key == fromBase64Url(keyBase64Url)
      iv == Base64Decode(encrypted.iv)
      tag == Base64Decode(encrypted.tag)
      opened == GcmOpen(key, iv, tag, Base64Decode(encrypted.ciphertext))
  IN IF opened.ok THEN Ok(Utf8Decode(opened.value)) ELSE opened

\* deriveKeyFromPassword that derives from the password alone.
deriveKeyFromPassword_NoSalt(password, salt) == Pbkdf2(password, <<>>, KEY_LENGTH)

deriveKeyFromPassword(password, salt) == Pbkdf2(password, salt, KEY_LENGTH)

encryptWithPassword(content, password, d) ==
  LET salt == RandomBytes(SALT_LENGTH, d)
      key == deriveKeyFromPassword(password, salt)
      iv == RandomBytes(IV_LENGTH, d + 1)
      sealed == GcmSeal(key, iv, Utf8Encode(content))
  IN [encrypted |-> EncryptedData(sealed.ciphertext, iv, sealed.tag),
      salt |-> Base64Encode(salt)]

\* decryptWithPassword reading the salt text without decoding it from base64.
decryptWithPassword_RawSalt(encrypted, password, saltBase64) ==
  LET key == deriveKeyFromPassword(password, Utf8Encode(saltBase64))
      iv == Base64Decode(encrypted.iv)
      tag == Base64Decode(encrypted.tag)
      opened == GcmOpen(key, iv, tag, Base64Decode(encrypted.ciphertext))
  IN IF opened.ok THEN Ok(Utf8Decode(opened.value)) ELSE opened

\* decryptWithPassword that keeps what update returned when final throws.
decryptWithPassword_SwallowFinal(encrypted, password, saltBase64) ==
  LET salt == Base64Decode(saltBase64)
      key == deriveKeyFromPassword(password, salt)
      iv == Base64Decode(encrypted.iv)
      tag == Base64Decode(encrypted.tag)
      ct == Base64Decode(encrypted.ciphertext)
      opened == GcmOpen(key, iv, tag, ct)
  IN IF opened.ok THEN Ok(Utf8Decode(opened.value))
     ELSE IF opened.error = AuthenticationFailure
       THEN Ok(Utf8Decode(GcmUpdate(key, iv, ct)))
     ELSE opened

decryptWithPassword(encrypted, password, saltBase64) ==
  LET salt == Base64Decode(saltBase64)
      key == deriveKeyFromPassword(password, salt)
      iv == Base64Decode(encrypted.iv)
      tag == Base64Decode(encrypted.tag)
      opened == GcmOpen(key, iv, tag, Base64Decode(encrypted.ciphertext))
  IN IF opened.ok THEN Ok(Utf8Decode(opened.value)) ELSE opened

(***************************************************************************)
(* State.  The encryption utilities keep no state of their own; the state  *)
(* below is that of a caller that encrypts, hands the result to a          *)
(* recipient (or an attacker) and decrypts.                                *)
(*   rng      number of draws made from the random source                  *)
(*   log      per encryption so far: the random key, salt and nonce it used *)
(*   current  the latest encryption: its inputs and what it returned       *)
(*   opened   the decryption in progress: its inputs and its outcome       *)
(*   pc       "idle", or "returned" right after a decryption               *)
(***************************************************************************)
VARIABLES rng, log, current, opened, pc

(***************************************************************************)
(* State of the extension and of what is around it.                        *)
(*   sharePc    where the share command stands                             *)
(*   share      its locals: selection, choices, password, result           *)
(*   requests   every HTTP request sent to the API, in order               *)
(*   clipboard  the text on the clipboard, None when nothing was written    *)
(*   history    globalState['snipit.history']                              *)
(*   shown      the last message shown to the user                         *)
(*   fetched    getSnippet called on two inputs: the inputs and the        *)
(*              request (or the error) each call led to                    *)
(***************************************************************************)
VARIABLES sharePc, share, requests, clipboard, history, shown, fetched

(***************************************************************************)
(* State of a caller of the codec.                                         *)
(*   codec    the last call of toBase64Url or fromBase64Url: its input and *)
(*            what it returned                                             *)
(***************************************************************************)
VARIABLES codec

(***************************************************************************)
(* State of a caller of deriveKeyFromPassword.                             *)
(*   derived  two calls: the password and salt of each and the key each    *)
(*            returned                                                     *)
(***************************************************************************)
VARIABLES derived

(***************************************************************************)
(* State of the history provider, besides the stored list `history`.       *)
(*   maxHistoryItems  the setting snipit.maxHistoryItems                   *)
(*   historyOp        the last call of the provider that wrote the list:   *)
(*                    its argument and the list it read                    *)
(***************************************************************************)
VARIABLES maxHistoryItems, historyOp

(***************************************************************************)
(* A run of the command snipit.paste (src/commands/paste.ts).              *)
(*   pastePc     where the run stands                                      *)
(*   paste       its locals                                                *)
(*   calls       the calls of getSnippet it made, with what came of each   *)
(*   pasted      what it put into an editor or a new document, if anything *)
(*   pasteShown  the message it showed last, if any                        *)
(***************************************************************************)
VARIABLES pastePc, paste, calls, pasted, pasteShown

(***************************************************************************)
(* Calls of the history provider that overlap: each does its work up to    *)
(* `await this.context.globalState.update(...)` in one piece and resumes   *)
(* later.                                                                  *)
(*   inflight    the calls that have not resumed yet                       *)
(*   historyLog  the calls made so far, in the order they were made        *)
(***************************************************************************)
VARIABLES inflight, historyLog

cryptoVars == <<rng, log, current, opened, pc>>
shareVars == <<sharePc, share, requests, clipboard, history, shown>>
getVars == <<fetched>>
codecVars == <<codec>>
deriveVars == <<derived>>
historyVars == <<maxHistoryItems, historyOp>>
pasteVars == <<pastePc, paste, calls, pasted, pasteShown>>
inflightVars == <<inflight, historyLog>>
restVars == <<codecVars, deriveVars, pasteVars, inflightVars>>
vars == <<cryptoVars, shareVars, getVars, historyVars, restVars>>

\* UTF-16 code units of the plaintexts: 'A', a high and a low surrogate
\* (together U+1F389, 4 bytes of UTF-8; unpaired they make the text ill-formed).
CodeUnits == {65, 55356, 57225}
Plaintexts == StringsUpTo(CodeUnits, MaxLen)

\* The empty password, "A" followed by U+FFFD, and "A" followed by an unpaired
\* high surrogate.
Passwords == {<<>>, <<65, 65533>>, <<65, 55356>>}

\* snipit.maxHistoryItems, its default.
DefaultMaxHistoryItems == 50

\* The state after activation, the setting snipit.maxHistoryItems being
\* maxItems.
InitWith(maxItems) ==
  /\ rng = 0
  /\ log = <<>>
  /\ current = None
  /\ opened = None
  /\ pc = "idle"
  /\ sharePc = "idle"
  /\ share = None
  /\ requests = <<>>
  /\ clipboard = None
  /\ history = <<>>
  /\ shown = None
  /\ fetched = None
  /\ codec = None
  /\ derived = None
  /\ maxHistoryItems = maxItems
  /\ historyOp = None
  /\ pastePc = "idle"
  /\ paste = None
  /\ calls = <<>>
  /\ pasted = None
  /\ pasteShown = None
  /\ inflight = {}
  /\ historyLog = <<>>

Init == InitWith(DefaultMaxHistoryItems)

\* The random values a call used, read back from what it returned: the key
\* (key mode) or the salt the key was derived with (password mode), and the
\* nonce.
UsedByEncrypt(r) ==
  [key |-> fromBase64Url(r.key), iv |-> Base64Decode(r.encrypted.iv), salt |-> <<>>]

UsedByEncryptWithPassword(r) ==
  [key |-> <<>>, iv |-> Base64Decode(r.encrypted.iv), salt |-> Base64Decode(r.salt)]

Encrypt(content) ==
  /\ pc = "idle"
  /\ Len(log) < MaxCalls
  /\ LET r == encrypt(content, rng) IN
       /\ current' = [mode |-> "key", content |-> content, password |-> <<>>,
                      encrypted |-> r.encrypted, key |-> r.key, salt |-> <<>>]
       /\ log' = Append(log, UsedByEncrypt(r))
  /\ rng' = rng + 2
  /\ UNCHANGED <<opened, pc>>
  /\ UNCHANGED <<shareVars, getVars, historyVars, restVars>>

EncryptWithPassword(content, password) ==
  /\ pc = "idle"
  /\ Len(log) < MaxCalls
  /\ LET r == encryptWithPassword(content, password, rng) IN
       /\ current' = [mode |-> "password", content |-> content, password |-> password,
                      encrypted |-> r.encrypted, key |-> <<>>, salt |-> r.salt]
       /\ log' = Append(log, UsedByEncryptWithPassword(r))
  /\ rng' = rng + 2
  /\ UNCHANGED <<opened, pc>>
  /\ UNCHANGED <<shareVars, getVars, historyVars, restVars>>

\* One byte of one field of the envelope changed on the way: byte `index` of
\* the decoded field is replaced by another value.
NoTamper == [field |-> "none", index |-> 0, delta |-> 0]

\* What is added to the byte: its lowest bit flips, its highest bit flips,
\* it goes down by one.
TamperDeltas == {1, 128, 255}

TamperedByte(b, delta) == (b + delta) % 256

Tampers(encrypted) ==
  UNION {{[field |-> f, index |-> i, delta |-> d] :
            i \in 1..Len(Base64Decode(encrypted[f])), d \in TamperDeltas} :
           f \in {"ciphertext", "iv", "tag"}}

Tampered(encrypted, t) ==
  IF t.field = "none" THEN encrypted
  ELSE [encrypted EXCEPT ![t.field] =
          Base64Encode([Base64Decode(@) EXCEPT ![t.index] = TamperedByte(@, t.delta)])]

\* One field handed over with another length: its last byte dropped, a byte
\* added at its end, or nothing left of it.
NoResize == [field |-> "none", how |-> "none"]

Resizes(fields) ==
  {[field |-> f, how |-> h] : f \in fields, h \in {"shorter", "longer", "empty"}}

ResizedBytes(bytes, how) ==
  CASE how = "shorter" -> SubSeq(bytes, 1, Len(bytes) - 1)
    [] how = "longer" -> Append(bytes, 255)
    [] how = "empty" -> <<>>

\* The envelope with its nonce or tag of another length.
ResizedEnvelope(encrypted, r) ==
  IF r.field \in {"iv", "tag"}
    THEN [encrypted EXCEPT ![r.field] =
            Base64Encode(ResizedBytes(Base64Decode(@), r.how))]
  ELSE encrypted

\* The key text of a key of another length.
ResizedKey(keyBase64Url, r) ==
  IF r.field = "key" THEN toBase64Url(ResizedBytes(fromBase64Url(keyBase64Url), r.how))
  ELSE keyBase64Url

\* The salt text of a salt of another length.
ResizedSalt(saltBase64, r) ==
  IF r.field = "salt" THEN Base64Encode(ResizedBytes(Base64Decode(saltBase64), r.how))
  ELSE saltBase64

\* The URL-safe character of a 6-bit value.
UrlChar(v) == IF v = 62 THEN 45 ELSE IF v = 63 THEN 95 ELSE B64Char(v)

\* Key texts a caller may pass to decrypt: the key returned, the keys of the
\* earlier encryptions, a newly generated key (not recorded as a draw: the
\* caller throws it away), the same key spelled with other padding bits in its
\* last character, a key that differs in its first byte, keys one byte
\* shorter and one byte longer, and the empty text.
KeyInputs ==
  LET k == current.key
      n == Len(k)
  IN {k, <<>>, SubSeq(k, 1, n - 1), Append(k, 65),
      [k EXCEPT ![n] = UrlChar(B64Value(@) + 1)],
      [k EXCEPT ![1] = UrlChar((B64Value(@) + 1) % 64)]}
     \cup {toBase64Url(log[i].key) : i \in {j \in 1..(Len(log) - 1) : log[j].key # <<>>}}
     \cup {toBase64Url(generateKey(rng))}

Decrypt(t, key) ==
  /\ pc = "idle"
  /\ LET encrypted == Tampered(current.encrypted, t) IN
       opened' = [fn |-> "decrypt", tamper |-> t, resize |-> NoResize,
                  encrypted |-> encrypted,
                  key |-> key, password |-> <<>>, salt |-> <<>>,
                  result |-> decrypt(encrypted, key)]
  /\ pc' = "returned"
  /\ UNCHANGED <<rng, log, current>>
  /\ UNCHANGED <<shareVars, getVars, historyVars, restVars>>

DecryptWithPassword(t, password) ==
  /\ pc = "idle"
  /\ LET encrypted == Tampered(current.encrypted, t) IN
       opened' = [fn |-> "decryptWithPassword", tamper |-> t, resize |-> NoResize,
                  encrypted |-> encrypted,
                  key |-> <<>>, password |-> password, salt |-> current.salt,
                  result |-> decryptWithPassword(encrypted, password, current.salt)]
  /\ pc' = "returned"
  /\ UNCHANGED <<rng, log, current>>
  /\ UNCHANGED <<shareVars, getVars, historyVars, restVars>>

\* decrypt with the right key, one of key, nonce and tag having another
\* length.
DecryptResized(r) ==
  /\ pc = "idle"
  /\ opened' = [fn |-> "decrypt", tamper |-> NoTamper, resize |-> r,
                encrypted |-> ResizedEnvelope(current.encrypted, r),
                key |-> ResizedKey(current.key, r), password |-> <<>>, salt |-> <<>>,
                result |-> decrypt(ResizedEnvelope(current.encrypted, r),
                                   ResizedKey(current.key, r))]
  /\ pc' = "returned"
  /\ UNCHANGED <<rng, log, current>>
  /\ UNCHANGED <<shareVars, getVars, historyVars, restVars>>

\* decryptWithPassword with the right password, one of nonce, tag and salt
\* having another length.
DecryptWithPasswordResized(r) ==
  /\ pc = "idle"
  /\ opened' = [fn |-> "decryptWithPassword", tamper |-> NoTamper, resize |-> r,
                encrypted |-> ResizedEnvelope(current.encrypted, r),
                key |-> <<>>, password |-> current.password,
                salt |-> ResizedSalt(current.salt, r),
                result |-> decryptWithPassword(ResizedEnvelope(current.encrypted, r),
                                               current.password,
                                               ResizedSalt(current.salt, r))]
  /\ pc' = "returned"
  /\ UNCHANGED <<rng, log, current>>
  /\ UNCHANGED <<shareVars, getVars, historyVars, restVars>>

\* The caller has looked at the outcome.
Resume ==
  /\ pc = "returned"
  /\ opened' = None
  /\ pc' = "idle"
  /\ UNCHANGED <<rng, log, current>>
  /\ UNCHANGED <<shareVars, getVars, historyVars, restVars>>

(***************************************************************************)
(* Strings and URLs                                                        *)
(***************************************************************************)
\* The index of the first character of s that is in cs, 0 when there is none.
FirstOf(s, cs) ==
  IF \E i \in 1..Len(s) : s[i] \in cs
    THEN CHOOSE i \in 1..Len(s) : s[i] \in cs /\ \A j \in 1..(i - 1) : s[j] \notin cs
  ELSE 0

\* str.includes(sub)
Includes(str, sub) ==
  \E i \in 1..(Len(str) - Len(sub) + 1) : SubSeq(str, i, i + Len(sub) - 1) = sub

\* The text from index i on.
From(s, i) == SubSeq(s, i, Len(s))

IsLetter(c) == c >= 97 /\ c <= 122

\* The text before index i, all of it when i = 0 (not found).
Before(s, i) == IF i = 0 THEN s ELSE SubSeq(s, 1, i - 1)

\* The text after index i, nothing when i = 0 (not found).
After(s, i) == IF i = 0 THEN <<>> ELSE From(s, i + 1)

\* new URL: the record of a parsed URL; an empty path reads "/", a query and
\* a fragment carry their '?' and '#' unless they are empty.
UrlRecord(protocol, host, path, query, fragment) ==
  Ok([protocol |-> protocol,
      hostname |-> host,
      port |-> <<>>,
      pathname |-> IF path = <<>> THEN <<47>> ELSE path,
      search |-> IF query = <<>> THEN <<>> ELSE <<63>> \o query,
      hash |-> IF fragment = <<>> THEN <<>> ELSE <<35>> \o fragment])

\* new URL: the path and the query are split at the first '?' (63).
UrlOfQuery(protocol, host, beforeHash, queryAt, fragment) ==
  UrlRecord(protocol, host, Before(beforeHash, queryAt), After(beforeHash, queryAt),
            fragment)

\* new URL: the fragment is what follows the first '#' (35).
UrlOfHash(protocol, host, rest, hashAt) ==
  UrlOfQuery(protocol, host, Before(rest, hashAt),
             FirstOf(Before(rest, hashAt), {63}), After(rest, hashAt))

\* new URL: the host ends at the first '/', '?' or '#'; it may not be empty.
UrlOfHost(protocol, after, hostEnd) ==
  IF Before(after, hostEnd) = <<>> THEN Err("Invalid URL")
  ELSE UrlOfHash(protocol, Before(after, hostEnd),
                 IF hostEnd = 0 THEN <<>> ELSE From(after, hostEnd),
                 IF hostEnd = 0 THEN 0
                 ELSE FirstOf(From(after, hostEnd), {35}))

\* new URL: the scheme is made of letters and is followed by "://".
UrlOfScheme(input, colon) ==
  IF \/ colon < 2
     \/ \E i \in 1..(colon - 1) : ~IsLetter(input[i])
     \/ Len(input) < colon + 2
     \/ input[colon + 1] # 47
     \/ input[colon + 2] # 47
    THEN Err("Invalid URL")
  ELSE UrlOfHost(SubSeq(input, 1, colon), From(input, colon + 3),
                 FirstOf(From(input, colon + 3), {47, 63, 35}))

\* new URL(input), for absolute URLs scheme://host/path?query#fragment with a
\* lower-case scheme and host and no port or credentials; anything else throws
\* (TypeError: Invalid URL).  ':' 58, '/' 47, '?' 63, '#' 35.
ParseUrl(input) == UrlOfScheme(input, FirstOf(input, {58}))

(***************************************************************************)
(* src/api/snipit.ts                                                       *)
(***************************************************************************)
\* getApiUrl(): the default of the setting snipit.apiUrl, "https://snipit.sh"
ApiUrl == <<104, 116, 116, 112, 115, 58, 47, 47, 115, 110, 105, 112, 105, 116, 46, 115, 104>>
\* "snipit.sh", "://", "https:", "/api/snippets"
SnipitSh == <<115, 110, 105, 112, 105, 116, 46, 115, 104>>
SchemeSeparator == <<58, 47, 47>>
HttpsProtocol == <<104, 116, 116, 112, 115, 58>>
SnippetsPath == <<47, 97, 112, 105, 47, 115, 110, 105, 112, 112, 101, 116, 115>>

\* makeRequest: options.port
RequestPort(parsedUrl) ==
  IF parsedUrl.port # <<>> THEN parsedUrl.port
  ELSE IF parsedUrl.protocol = HttpsProtocol THEN 443 ELSE 80

\* The fragment of the URL is handed to the HTTP client as well.
RequestPath_WithHash(parsedUrl) ==
  parsedUrl.pathname \o parsedUrl.search \o parsedUrl.hash

\* makeRequest: options.path
RequestPath(parsedUrl) == parsedUrl.pathname \o parsedUrl.search

\* makeRequest: the request made of the parsed URL; new URL may have thrown.
RequestOf(method, parsedUrl, data) ==
  IF ~parsedUrl.ok THEN parsedUrl
  ELSE Ok([method |-> method,
           protocol |-> parsedUrl.value.protocol,
           hostname |-> parsedUrl.value.hostname,
           port |-> RequestPort(parsedUrl.value),
           path |-> RequestPath(parsedUrl.value),
           body |-> data])

\* makeRequest(method, url, data): the request it sends; data = None stands
\* for no data (nothing is written to the request).
HttpRequest(method, url, data) == RequestOf(method, ParseUrl(url), data)

\* createSnippet: expirySeconds = expiryMap[options.expiry]
expiryMap ==
  [e \in {"1h", "24h", "7d", "30d", "never"} |->
     CASE e = "1h" -> 60 * 60
       [] e = "24h" -> 24 * 60 * 60
       [] e = "7d" -> 7 * 24 * 60 * 60
       [] e = "30d" -> 30 * 24 * 60 * 60
       [] e = "never" -> 0]

\* An optional value that is present; None is the absent one (undefined).
Some(v) == [some |-> v]
Optional(S) == {None} \cup {Some(v) : v \in S}

\* expiresAt: the time of the call is taken as 0, so the value is the life
\* time in seconds; None stands for undefined (never expires).
ExpiresAt(expiry) ==
  IF expiryMap[expiry] # 0 THEN Some(expiryMap[expiry]) ELSE None

\* createSnippet: the body of the POST request.  password is None when
\* options.password is undefined (JSON.stringify then leaves the field out).
CreateSnippetBody(options) ==
  [content |-> options.content,
   language |-> options.language,
   fileName |-> options.fileName,
   visibility |-> options.visibility,
   expiresAt |-> ExpiresAt(options.expiry),
   password |-> options.password]

CreateSnippetRequest(options) ==
  HttpRequest("POST", ApiUrl \o SnippetsPath, CreateSnippetBody(options))

\* createSnippet: what it resolves to once the API answered with response.
CreateSnippetResult(response) ==
  [url |-> ApiUrl \o <<47>> \o response.id, id |-> response.id]

\* url.pathname.replace(/^\//, '').split('/')[0]
IdOfPathname(pathname) ==
  Before(IF pathname # <<>> /\ Head(pathname) = 47 THEN Tail(pathname) ELSE pathname,
         FirstOf(IF pathname # <<>> /\ Head(pathname) = 47 THEN Tail(pathname)
                 ELSE pathname, {47}))

\* url.hash.replace(/^#/, '') || undefined
KeyOfHash(hash) ==
  IF hash = <<>> \/ hash = <<35>> THEN None
  ELSE IF Head(hash) = 35 THEN Some(Tail(hash)) ELSE Some(hash)

\* getSnippet: the id and the key read from the parsed URL.
IdAndKeyOf(url) ==
  IF ~url.ok THEN url
  ELSE Ok([id |-> IdOfPathname(url.value.pathname),
           encryptionKey |-> KeyOfHash(url.value.hash)])

\* getSnippet: the id and the encryption key read from idOrUrl; None stands
\* for undefined.  new URL may throw.
ParseIdOrUrl(idOrUrl) ==
  IF Includes(idOrUrl, SnipitSh) \/ Includes(idOrUrl, SchemeSeparator)
    THEN IdAndKeyOf(ParseUrl(idOrUrl))
  ELSE Ok([id |-> idOrUrl, encryptionKey |-> None])

\* getSnippet: the GET request made for the id that was read.
GetRequestOf(parsed) ==
  IF ~parsed.ok THEN parsed
  ELSE HttpRequest("GET", ApiUrl \o SnippetsPath \o <<47>> \o parsed.value.id, None)

\* getSnippet: the GET request it sends for idOrUrl, or the error it throws
\* before sending anything.
GetSnippetRequest(idOrUrl) == GetRequestOf(ParseIdOrUrl(idOrUrl))

\* `HTTP ${res.statusCode}` for the statuses the replies below carry.
HttpStatusText(status) ==
  CASE status = 404 -> "HTTP 404"
    [] status = 410 -> "HTTP 410"
    [] OTHER -> "HTTP 500"

\* A text (or undefined, None) read as a condition: undefined and "" are
\* falsy.
Truthy(text) == IF text = None THEN FALSE ELSE Len(text.some) > 0

\* makeRequest: what its promise settles to.  A reply is a socket error, or a
\* status with a body; the body is a JSON object or a text JSON.parse rejects.
MakeRequestResult(reply) ==
  IF reply.kind = "error" THEN Err(reply.message)
  ELSE IF ~reply.parsed THEN Err("Failed to parse response: " \o reply.text)
  ELSE IF reply.status >= 200 /\ reply.status < 300 THEN Ok(reply.json)
  ELSE IF Truthy(reply.json.message) THEN Err(reply.json.message.some)
  ELSE Err(HttpStatusText(reply.status))

\* What getSnippet returns.
SnippetOf(content, response) ==
  Ok([content |-> content, language |-> response.language,
      fileName |-> response.fileName])

\* getSnippet once decrypt or decryptWithPassword has returned or thrown.
SnippetOfOpened(plain, response) ==
  [result |-> IF plain.ok THEN SnippetOf(plain.value, response) ELSE plain,
   decrypted |-> TRUE]

\* getSnippet on a response with encrypted data and no content; decrypted
\* tells whether decrypt or decryptWithPassword was called.
SnippetOfEncrypted(response, encryptionKey, password) ==
  IF response.visibility = "password"
    THEN IF ~Truthy(password)
           THEN [result |-> Err("Password required"), decrypted |-> FALSE]
         ELSE IF ~Truthy(response.salt)
           THEN [result |-> Err("Missing salt for password decryption"),
                 decrypted |-> FALSE]
         ELSE SnippetOfOpened(decryptWithPassword(response.encrypted.some,
                                                  password.some, response.salt.some),
                              response)
  ELSE IF encryptionKey # None
    THEN SnippetOfOpened(decrypt(response.encrypted.some, encryptionKey.some), response)
  ELSE [result |-> Err("Encryption key required (should be in URL fragment)"),
        decrypted |-> FALSE]

\* getSnippet looking at the burned mark after the content and the encrypted
\* data.
SnippetOfResponse_BurnedLast(response, encryptionKey, password) ==
  IF Truthy(response.content)
    THEN [result |-> SnippetOf(response.content.some, response), decrypted |-> FALSE]
  ELSE IF response.encrypted # None
    THEN SnippetOfEncrypted(response, encryptionKey, password)
  ELSE IF response.burned
    THEN [result |-> Err("This snippet has been burned (already viewed)"),
          decrypted |-> FALSE]
  ELSE [result |-> Err("No content found in snippet"), decrypted |-> FALSE]

\* getSnippet once the response is there.
SnippetOfResponse(response, encryptionKey, password) ==
  IF response.burned
    THEN [result |-> Err("This snippet has been burned (already viewed)"),
          decrypted |-> FALSE]
  ELSE IF Truthy(response.content)
    THEN [result |-> SnippetOf(response.content.some, response), decrypted |-> FALSE]
  ELSE IF response.encrypted # None
    THEN SnippetOfEncrypted(response, encryptionKey, password)
  ELSE [result |-> Err("No content found in snippet"), decrypted |-> FALSE]

\* getSnippet from the point where makeRequest has settled.
SnippetOfSettled(settled, encryptionKey, password) ==
  IF ~settled.ok THEN [result |-> settled, decrypted |-> FALSE]
  ELSE SnippetOfResponse(settled.value, encryptionKey, password)

\* getSnippet from the point where idOrUrl has been read.
SnippetOfParsed(parsed, password, reply) ==
  IF ~parsed.ok THEN [result |-> parsed, decrypted |-> FALSE]
  ELSE SnippetOfSettled(MakeRequestResult(reply), parsed.value.encryptionKey, password)

\* getSnippet(idOrUrl, password), the server replying with reply.
getSnippet(idOrUrl, password, reply) ==
  SnippetOfParsed(ParseIdOrUrl(idOrUrl), password, reply)

\* parseSnipitUrl from the point where new URL has returned or thrown.
SnipitUrlOf(url) ==
  IF ~url.ok THEN None
  ELSE IF ~Includes(url.value.hostname, <<115, 110, 105, 112, 105, 116>>) THEN None
  ELSE Some([id |-> IdOfPathname(url.value.pathname), key |-> KeyOfHash(url.value.hash)])

\* parseSnipitUrl(url); None stands for null.
parseSnipitUrl(url) == SnipitUrlOf(ParseUrl(url))

(***************************************************************************)
(* src/commands/share.ts: the command snipit.share, one await at a time.   *)
(***************************************************************************)
\* Longest run of uploads.
MaxShares == 2

\* What getSelectedText() may return: None (no active editor), or a text
\* with its language and file name.  "", " ", "A", "hi".
SelectionTexts == {<<>>, <<32>>, <<65>>, <<104, 105>>}
Selections ==
  {None} \cup {[text |-> t, languageId |-> "typescript", fileName |-> "a.ts"] :
                 t \in SelectionTexts}

\* selection.text.trim(): the text without its leading and trailing blanks.
IsBlank(c) == c \in {9, 10, 13, 32}
Trim(text) ==
  IF \A i \in 1..Len(text) : IsBlank(text[i]) THEN <<>>
  ELSE SubSeq(text,
              CHOOSE i \in 1..Len(text) :
                ~IsBlank(text[i]) /\ \A j \in 1..(i - 1) : IsBlank(text[j]),
              CHOOSE i \in 1..Len(text) :
                ~IsBlank(text[i]) /\ \A j \in (i + 1)..Len(text) : IsBlank(text[j]))

VISIBILITY_OPTIONS == {"public", "password", "burn"}
EXPIRY_OPTIONS == {"1h", "24h", "7d", "30d", "never"}
\* The expiry times the user picks here.
ExpiryChoices == {"1h", "never"}

\* What the user may type into a password box: "", "abc", "pass", "word5".
TypedPasswords == {<<>>, <<97, 98, 99>>, <<112, 97, 115, 115>>, <<119, 111, 114, 100, 53>>}

\* validateInput of the password box: None stands for null (accepted).
ValidatePassword(value) ==
  IF value = <<>> \/ Len(value) < 4
    THEN Some("Password must be at least 4 characters") ELSE None

\* validateInput of the confirmation box.
ValidateConfirm(value, password) ==
  IF value # password THEN Some("Passwords do not match") ELSE None

\* The ids the API gives to new snippets: "ab", "cd".
Ids == {<<97, 98>>, <<99, 100>>}

\* The locals of a run of the command, before its first prompt.
ShareLocals(selection) ==
  [selection |-> selection, visibility |-> "", expiry |-> "",
   password |-> None, confirmPassword |-> None, result |-> None]

\* The command starts: no editor, or nothing but blanks, ends it with a warning.
ShareStart(selection) ==
  /\ sharePc \in {"idle", "done"}
  /\ Len(requests) < MaxShares
  /\ share' = ShareLocals(selection)
  /\ IF selection = None
       THEN /\ shown' = [kind |-> "warning",
                         text |-> "No active editor found. Open a file first."]
            /\ sharePc' = "done"
     ELSE IF Trim(selection.text) = <<>>
       THEN /\ shown' = [kind |-> "warning",
                         text |-> "No content to share. Select some text or open a file with content."]
            /\ sharePc' = "done"
     ELSE /\ shown' = None
          /\ sharePc' = "visibility"
  /\ UNCHANGED <<requests, clipboard, history>>
  /\ UNCHANGED <<cryptoVars, getVars, historyVars, restVars>>

\* showQuickPick of the visibility; choice = None when the user cancels.
SharePickVisibility(choice) ==
  /\ sharePc = "visibility"
  /\ IF choice = None
       THEN sharePc' = "done" /\ UNCHANGED share
     ELSE sharePc' = "expiry" /\ share' = [share EXCEPT !.visibility = choice.some]
  /\ UNCHANGED <<requests, clipboard, history, shown>>
  /\ UNCHANGED <<cryptoVars, getVars, historyVars, restVars>>

\* showQuickPick of the expiry time.
SharePickExpiry(choice) ==
  /\ sharePc = "expiry"
  /\ IF choice = None
       THEN sharePc' = "done" /\ UNCHANGED share
     ELSE /\ share' = [share EXCEPT !.expiry = choice.some]
          /\ sharePc' = IF share.visibility = "password" THEN "password" ELSE "upload"
  /\ UNCHANGED <<requests, clipboard, history, shown>>
  /\ UNCHANGED <<cryptoVars, getVars, historyVars, restVars>>

\* showInputBox of the password: it returns undefined (None) when the user
\* cancels, and otherwise a value its validateInput accepts.
ShareEnterPassword(value) ==
  /\ sharePc = "password"
  /\ IF value = None THEN TRUE ELSE ValidatePassword(value.some) = None
  /\ IF value = None \/ value = Some(<<>>)
       THEN sharePc' = "done" /\ UNCHANGED share
     ELSE sharePc' = "confirm" /\ share' = [share EXCEPT !.password = value]
  /\ UNCHANGED <<requests, clipboard, history, shown>>
  /\ UNCHANGED <<cryptoVars, getVars, historyVars, restVars>>

\* The confirmation without the return that follows a dismissed box.
ShareConfirmPassword_NoReturn(value) ==
  /\ sharePc = "confirm"
  /\ IF value = None THEN TRUE
     ELSE ValidateConfirm(value.some, share.password.some) = None
  /\ share' = [share EXCEPT !.confirmPassword = value]
  /\ sharePc' = "upload"
  /\ UNCHANGED <<requests, clipboard, history, shown>>
  /\ UNCHANGED <<cryptoVars, getVars, historyVars, restVars>>

\* showInputBox of the confirmation.
ShareConfirmPassword(value) ==
  /\ sharePc = "confirm"
  /\ IF value = None THEN TRUE
     ELSE ValidateConfirm(value.some, share.password.some) = None
  /\ share' = [share EXCEPT !.confirmPassword = value]
  /\ sharePc' = IF value = None \/ value = Some(<<>>) THEN "done" ELSE "upload"
  /\ UNCHANGED <<requests, clipboard, history, shown>>
  /\ UNCHANGED <<cryptoVars, getVars, historyVars, restVars>>

\* The options createSnippet is called with.
ShareOptions ==
  [content |-> share.selection.text,
   language |-> share.selection.languageId,
   fileName |-> share.selection.fileName,
   visibility |-> share.visibility,
   expiry |-> share.expiry,
   password |-> share.password]

\* createSnippet(options) up to its await: the POST request goes out.
ShareUpload ==
  /\ sharePc = "upload"
  /\ requests' = Append(requests, CreateSnippetRequest(ShareOptions).value)
  /\ sharePc' = "awaitCreate"
  /\ UNCHANGED <<share, clipboard, history, shown>>
  /\ UNCHANGED <<cryptoVars, getVars, historyVars, restVars>>

\* The API answers with a new id: createSnippet resolves.
ShareCreated(id) ==
  /\ sharePc = "awaitCreate"
  /\ share' = [share EXCEPT !.result = CreateSnippetResult([id |-> id])]
  /\ sharePc' = "copy"
  /\ UNCHANGED <<requests, clipboard, history, shown>>
  /\ UNCHANGED <<cryptoVars, getVars, historyVars, restVars>>

\* The request fails, or the API answers with an error: createSnippet
\* rejects and the command reports it.
ShareFailed ==
  /\ sharePc = "awaitCreate"
  /\ shown' = [kind |-> "error", text |-> "Failed to share: HTTP 500"]
  /\ sharePc' = "done"
  /\ UNCHANGED <<share, requests, clipboard, history>>
  /\ UNCHANGED <<cryptoVars, getVars, historyVars, restVars>>

\* await copyToClipboard(result.url)
ShareCopy ==
  /\ sharePc = "copy"
  /\ clipboard' = Some(share.result.url)
  /\ sharePc' = "history"
  /\ UNCHANGED <<share, requests, history, shown>>
  /\ UNCHANGED <<cryptoVars, getVars, historyVars, restVars>>

\* The command's own expiryMap, in milliseconds.
shareExpiryMap ==
  [e \in EXPIRY_OPTIONS |->
     CASE e = "1h" -> 60 * 60 * 1000
       [] e = "24h" -> 24 * 60 * 60 * 1000
       [] e = "7d" -> 7 * 24 * 60 * 60 * 1000
       [] e = "30d" -> 30 * 24 * 60 * 60 * 1000
       [] e = "never" -> 0]

\* expiresAt of the history item: the time is taken as 0 again.
ShareExpiresAt(expiry) ==
  IF shareExpiryMap[expiry] # 0 THEN Some(shareExpiryMap[expiry]) ELSE None

\* The history item the command builds.
ShareHistoryItem ==
  [id |-> share.result.id,
   url |-> share.result.url,
   fileName |-> share.selection.fileName,
   language |-> share.selection.languageId,
   visibility |-> share.visibility,
   expiresAt |-> ShareExpiresAt(share.expiry)]

\* addToHistory with push in the place of unshift: the new item goes last.
AddedToHistory_Push(list, item, maxItems) ==
  LET added == Append(list, item)
  IN IF Len(added) > maxItems THEN SubSeq(added, 1, maxItems) ELSE added

\* HistoryProvider.addToHistory(item): the new item first, the list cut to
\* maxItems.
AddedToHistory(list, item, maxItems) ==
  LET added == <<item>> \o list
  IN IF Len(added) > maxItems THEN SubSeq(added, 1, maxItems) ELSE added

\* await historyProvider.addToHistory(historyItem), then the success message.
ShareAddToHistory ==
  /\ sharePc = "history"
  /\ history' = AddedToHistory(history, ShareHistoryItem, maxHistoryItems)
  /\ historyOp' = [op |-> "add", item |-> ShareHistoryItem, before |-> history]
  /\ shown' = [kind |-> "information",
               text |-> "Snippet shared! URL copied to clipboard."]
  /\ sharePc' = "notified"
  /\ UNCHANGED <<share, requests, clipboard, maxHistoryItems>>
  /\ UNCHANGED <<cryptoVars, getVars, restVars>>

\* The user's answer to the success message: None (dismissed),
\* "Open in Browser" or "Copy Again".
ShareAnswer(action) ==
  /\ sharePc = "notified"
  /\ clipboard' = IF action = Some("Copy Again") THEN Some(share.result.url) ELSE clipboard
  /\ sharePc' = "done"
  /\ UNCHANGED <<share, requests, history, shown>>
  /\ UNCHANGED <<cryptoVars, getVars, historyVars, restVars>>

NextShare ==
  \/ \E selection \in Selections : ShareStart(selection)
  \/ \E choice \in Optional(VISIBILITY_OPTIONS) : SharePickVisibility(choice)
  \/ \E choice \in Optional(ExpiryChoices) : SharePickExpiry(choice)
  \/ \E value \in Optional(TypedPasswords) : ShareEnterPassword(value)
  \/ \E value \in Optional(TypedPasswords) : ShareConfirmPassword(value)
  \/ ShareUpload
  \/ \E id \in Ids : ShareCreated(id)
  \/ ShareFailed
  \/ ShareCopy
  \/ ShareAddToHistory
  \/ \E action \in Optional({"Open in Browser", "Copy Again"}) : ShareAnswer(action)

SpecShare == Init /\ [][NextShare]_vars

(***************************************************************************)
(* getSnippet called on two inputs that differ in nothing but what follows *)
(* the first '#'.                                                          *)
(***************************************************************************)
\* Before the '#': a full URL, a URL on another host, a text with "snipit.sh"
\* and no scheme, and bare ids; with ids "ab", "", "ab/c", "ab?q".
UrlPrefixes == {ApiUrl \o <<47>>, <<104, 116, 116, 112, 58, 47, 47, 104, 47>>, SnipitSh \o <<47>>, <<>>}
UrlIds == {<<97, 98>>, <<>>, <<97, 98, 47, 99>>, <<97, 98, 63, 113>>}
\* From the '#' on: nothing, "#", "#k", "#K-_", "#k?/#", "#://".
Fragments ==
  {<<>>, <<35>>, <<35, 107>>, <<35, 75, 45, 95>>, <<35, 107, 63, 47, 35>>,
   <<35, 58, 47, 47>>}

GetSnippetTwice(base, fragmentA, fragmentB) ==
  /\ fetched = None
  /\ fetched' = [base |-> base,
                 a |-> [idOrUrl |-> base \o fragmentA,
                        request |-> GetSnippetRequest(base \o fragmentA)],
                 b |-> [idOrUrl |-> base \o fragmentB,
                        request |-> GetSnippetRequest(base \o fragmentB)]]
  /\ UNCHANGED <<cryptoVars, shareVars, historyVars, restVars>>

\* The caller takes note of the two outcomes.
GetSnippetDone ==
  /\ fetched # None
  /\ fetched' = None
  /\ UNCHANGED <<cryptoVars, shareVars, historyVars, restVars>>

NextGet ==
  \/ \E prefix \in UrlPrefixes, id \in UrlIds :
       \E fragmentA \in Fragments, fragmentB \in Fragments :
         GetSnippetTwice(prefix \o id, fragmentA, fragmentB)
  \/ GetSnippetDone

SpecGet == Init /\ [][NextGet]_vars

(***************************************************************************)
(* Calls of the codec: toBase64Url on a buffer, fromBase64Url on what it   *)
(* returned, and fromBase64Url on texts from elsewhere.                    *)
(***************************************************************************)
\* Longest buffer encoded.
MaxBytes == 3

\* Bytes of the buffers: 251 and 255 put '+' and '/' into standard base64.
ByteValues == {0, 65, 251, 255}
Buffers == StringsUpTo(ByteValues, MaxBytes)

\* Texts handed to fromBase64Url that toBase64Url did not write: "QUJD",
\* "QQ", "-_8", "+/8=", "A!B", "!", " QUJD", "QUJD\n", "QQ==QUJD", "é".
CodecTexts ==
  {<<81, 85, 74, 68>>, <<81, 81>>, <<45, 95, 56>>, <<43, 47, 56, 61>>,
   <<65, 33, 66>>, <<33>>, <<32, 81, 85, 74, 68>>, <<81, 85, 74, 68, 10>>,
   <<81, 81, 61, 61, 81, 85, 74, 68>>, <<233>>}

CodecEncode(buffer) ==
  /\ codec' = [op |-> "toBase64Url", buffer |-> buffer,
               text |-> toBase64Url(buffer), result |-> None]
  /\ UNCHANGED <<cryptoVars, shareVars, getVars, historyVars, deriveVars, pasteVars, inflightVars>>

\* fromBase64Url on the text toBase64Url has just returned.  Buffer.from
\* never throws on a string: the call returns.
CodecDecodeEncoded ==
  /\ codec # None
  /\ codec.op = "toBase64Url"
  /\ codec' = [codec EXCEPT !.op = "roundTrip",
                            !.result = Ok(fromBase64Url(codec.text))]
  /\ UNCHANGED <<cryptoVars, shareVars, getVars, historyVars, deriveVars, pasteVars, inflightVars>>

CodecDecode(str) ==
  /\ codec' = [op |-> "fromBase64Url", buffer |-> <<>>, text |-> str,
               result |-> Ok(fromBase64Url(str))]
  /\ UNCHANGED <<cryptoVars, shareVars, getVars, historyVars, deriveVars, pasteVars, inflightVars>>

NextCodec ==
  \/ \E buffer \in Buffers : CodecEncode(buffer)
  \/ CodecDecodeEncoded
  \/ \E str \in CodecTexts : CodecDecode(str)

SpecCodec == Init /\ [][NextCodec]_vars

(***************************************************************************)
(* Two calls of deriveKeyFromPassword.                                     *)
(***************************************************************************)
\* The passwords derived from: those above and "A".
DerivePasswords == Passwords \cup {<<65>>}

\* The salts derived with: two salts as encryptWithPassword draws them, one
\* of them without its last byte, and the empty salt.
DeriveSalts ==
  {RandomBytes(SALT_LENGTH, 0), RandomBytes(SALT_LENGTH, 2),
   SubSeq(RandomBytes(SALT_LENGTH, 0), 1, SALT_LENGTH - 1), <<>>}

DerivedKey(password, salt) ==
  [password |-> password, salt |-> salt,
   key |-> deriveKeyFromPassword(password, salt)]

DeriveTwice(passwordA, saltA, passwordB, saltB) ==
  /\ derived' = [a |-> DerivedKey(passwordA, saltA), b |-> DerivedKey(passwordB, saltB)]
  /\ UNCHANGED <<cryptoVars, shareVars, getVars, historyVars, codecVars, pasteVars, inflightVars>>

NextDerive ==
  \E passwordA \in DerivePasswords, passwordB \in DerivePasswords :
    \E saltA \in DeriveSalts, saltB \in DeriveSalts :
      DeriveTwice(passwordA, saltA, passwordB, saltB)

SpecDerive == Init /\ [][NextDerive]_vars

(***************************************************************************)
(* src/providers/historyProvider.ts: calls of the provider, one after the  *)
(* other, under a setting snipit.maxHistoryItems that stays as it is.      *)
(***************************************************************************)
\* Largest setting tried.
MaxSetting == 3

\* The settings tried: positive whole numbers.
HistorySettings == 1..MaxSetting

\* The ids of the items added and removed: "ab", "cd" and "ef".
HistoryIds == Ids \cup {<<101, 102>>}

\* An item as the share command builds it.
HistoryItemOf(id) ==
  [id |-> id, url |-> ApiUrl \o <<47>> \o id, fileName |-> "a.ts",
   language |-> "typescript", visibility |-> "public", expiresAt |-> None]

\* history.filter(item => item.id !== id)
WithoutId(list, id) ==
  LET keep == {i \in 1..Len(list) : list[i].id # id}
      at(k) == CHOOSE i \in keep : Cardinality({j \in keep : j <= i}) = k
  IN [k \in 1..Cardinality(keep) |-> list[at(k)]]

\* The items added.
HistoryItems == {HistoryItemOf(id) : id \in HistoryIds}

AddToHistory(item) ==
  /\ history' = AddedToHistory(history, item, maxHistoryItems)
  /\ historyOp' = [op |-> "add", item |-> item, before |-> history]
  /\ UNCHANGED <<sharePc, share, requests, clipboard, shown, maxHistoryItems>>
  /\ UNCHANGED <<cryptoVars, getVars, restVars>>

RemoveFromHistory(id) ==
  /\ history' = WithoutId(history, id)
  /\ historyOp' = [op |-> "remove", id |-> id, before |-> history]
  /\ UNCHANGED <<sharePc, share, requests, clipboard, shown, maxHistoryItems>>
  /\ UNCHANGED <<cryptoVars, getVars, restVars>>

ClearHistory ==
  /\ history' = <<>>
  /\ historyOp' = [op |-> "clear", before |-> history]
  /\ UNCHANGED <<sharePc, share, requests, clipboard, shown, maxHistoryItems>>
  /\ UNCHANGED <<cryptoVars, getVars, restVars>>

InitHistory == \E maxItems \in HistorySettings : InitWith(maxItems)

NextHistory ==
  \/ \E item \in HistoryItems : AddToHistory(item)
  \/ \E id \in HistoryIds : RemoveFromHistory(id)
  \/ ClearHistory

SpecHistory == InitHistory /\ [][NextHistory]_vars

(***************************************************************************)
(* src/providers/historyProvider.ts: calls of the provider that overlap.   *)
(* A call reads the stored list, changes its copy and hands it to          *)
(* globalState.update without an await in between; the store shows the     *)
(* new value to the next get from then on.  The call resumes (and          *)
(* refreshes the tree) when the promise of update settles.                 *)
(***************************************************************************)
\* Largest number of calls made in a behaviour.
MaxHistoryCalls == 4

\* The ids of the items added so far.
AddedIds == {historyLog[i].id : i \in {j \in 1..Len(historyLog) : historyLog[j].op = "add"}}

\* A call as it is remembered: what it read, what it handed to update and
\* how many calls were in flight when it was made.
HistoryCall(op, id, written) ==
  [n |-> Len(historyLog) + 1, op |-> op, id |-> id, read |-> history,
   written |-> written, overlap |-> Cardinality(inflight)]

\* A call has run up to its await.
HistoryCallMade(call) ==
  /\ history' = call.written
  /\ inflight' = inflight \cup {call}
  /\ historyLog' = Append(historyLog, call)
  /\ UNCHANGED <<sharePc, share, requests, clipboard, shown, historyVars>>
  /\ UNCHANGED <<cryptoVars, getVars, codecVars, deriveVars, pasteVars>>

\* addToHistory(item) up to its await; the server gives every snippet an id
\* of its own.
StartAddToHistory(item) ==
  /\ Len(historyLog) < MaxHistoryCalls
  /\ item.id \notin AddedIds
  /\ HistoryCallMade(HistoryCall("add", item.id,
                                 AddedToHistory(history, item, maxHistoryItems)))

\* removeFromHistory(id) up to its await; the id is that of an item of the
\* tree, so of an item that was added.
StartRemoveFromHistory(id) ==
  /\ Len(historyLog) < MaxHistoryCalls
  /\ id \in AddedIds
  /\ HistoryCallMade(HistoryCall("remove", id, WithoutId(history, id)))

\* A call resumes and writes what it handed to update into the store only
\* now.
ResumeHistoryCall_WriteBack(call) ==
  /\ call \in inflight
  /\ inflight' = inflight \ {call}
  /\ history' = call.written
  /\ UNCHANGED <<sharePc, share, requests, clipboard, shown, historyVars, historyLog>>
  /\ UNCHANGED <<cryptoVars, getVars, codecVars, deriveVars, pasteVars>>

\* The promise of update settles: the call resumes, refreshes the tree and
\* returns.
ResumeHistoryCall(call) ==
  /\ call \in inflight
  /\ inflight' = inflight \ {call}
  /\ UNCHANGED <<sharePc, share, requests, clipboard, history, shown, historyVars,
                 historyLog>>
  /\ UNCHANGED <<cryptoVars, getVars, codecVars, deriveVars, pasteVars>>

NextHistoryCalls ==
  \/ \E item \in HistoryItems : StartAddToHistory(item)
  \/ \E id \in HistoryIds : StartRemoveFromHistory(id)
  \/ \E call \in inflight : ResumeHistoryCall(call)

SpecHistoryCalls == InitHistory /\ [][NextHistoryCalls]_vars

(***************************************************************************)
(* src/commands/paste.ts: the command snipit.paste, one await at a time.   *)
(***************************************************************************)
\* The snippet behind the URLs: "hi", shared with a key and shared with the
\* password "pass".
PasteContent == <<104, 105>>
PastePassword == <<112, 97, 115, 115>>
KeySealed == encrypt(PasteContent, 0)
PasswordSealed == encryptWithPassword(PasteContent, PastePassword, 0)

\* "https://snipit.sh/ab" and what follows it.
PasteUrl(fragment) == ApiUrl \o <<47, 97, 98>> \o fragment

\* What the user may type into the URL box: nothing, the URL without a key,
\* with the key, with another key, "http://h/ab" and "snipit.sh/ab".
UrlInputs ==
  {<<>>, PasteUrl(<<>>), PasteUrl(<<35>> \o KeySealed.key),
   PasteUrl(<<35>> \o encrypt(PasteContent, 2).key),
   <<104, 116, 116, 112, 58, 47, 47, 104, 47, 97, 98>>,
   SnipitSh \o <<47, 97, 98>>}

\* What the clipboard may hold: nothing, the URL with the key, "hi".
Clipboards == {<<>>, PasteUrl(<<35>> \o KeySealed.key), PasteContent}

\* What the user may type into the password box: nothing, "pass", "abc".
PastePasswords == {<<>>, PastePassword, <<97, 98, 99>>}

\* The JSON objects of 2xx replies (GetSnippetResponse).
Responses ==
  [burned : BOOLEAN,
   content : {None, Some(<<>>), Some(<<65>>)},
   encrypted : {None, Some(KeySealed.encrypted), Some(PasswordSealed.encrypted)},
   salt : {None, Some(PasswordSealed.salt)},
   visibility : {"public", "password", "burn"},
   language : {Some("typescript")},
   fileName : {Some("a.ts")},
   message : {None}]

\* The JSON objects of other replies: a message or none, and one that
\* carries the burned mark.
ErrorBodies ==
  [burned : BOOLEAN,
   content : {None},
   encrypted : {None},
   salt : {None},
   visibility : {"public"},
   language : {None},
   fileName : {None},
   message : {None, Some("Password required"), Some("Snippet not found")}]

\* What may come back for a request.
Replies ==
  {[kind |-> "error", message |-> "connect ECONNREFUSED"]}
    \cup {[kind |-> "reply", status |-> 200, parsed |-> TRUE, json |-> r] :
            r \in Responses}
    \cup {[kind |-> "reply", status |-> st, parsed |-> TRUE, json |-> r] :
            st \in {404, 410}, r \in ErrorBodies}
    \cup {[kind |-> "reply", status |-> st, parsed |-> FALSE, text |-> "<html>"] :
            st \in {200, 500}}

\* validateInput of the URL box: None stands for null (accepted).
ValidateUrl(value) ==
  IF value = <<>> THEN Some("URL is required")
  ELSE IF parseSnipitUrl(value) = None THEN Some("Invalid Snipit.sh URL")
  ELSE None

\* A call of getSnippet as the run remembers it.
CallOf(idOrUrl, password, reply, got) ==
  [idOrUrl |-> idOrUrl, password |-> password, reply |-> reply,
   result |-> got.result, decrypted |-> got.decrypted]

\* language || 'plaintext'
LanguageOr(language) ==
  IF language = None THEN "plaintext"
  ELSE IF language.some = "" THEN "plaintext"
  ELSE language.some

\* The command is run: the clipboard is read and the URL box is shown.
PasteStart(clipboardContent) ==
  /\ pastePc = "idle"
  /\ paste' = [prefill |-> IF parseSnipitUrl(clipboardContent) # None
                             THEN Some(clipboardContent) ELSE None,
               url |-> None, password |-> None, content |-> None,
               language |-> None]
  /\ pastePc' = "url"
  /\ UNCHANGED <<calls, pasted, pasteShown>>
  /\ UNCHANGED <<cryptoVars, shareVars, getVars, historyVars, codecVars, deriveVars, inflightVars>>

\* The URL box is answered: dismissed (None) or a text validateInput accepts.
PasteEnterUrl(value) ==
  /\ pastePc = "url"
  /\ IF value = None THEN TRUE ELSE ValidateUrl(value.some) = None
  /\ paste' = [paste EXCEPT !.url = value]
  /\ pastePc' = IF ~Truthy(value) THEN "done" ELSE "fetch"
  /\ UNCHANGED <<calls, pasted, pasteShown>>
  /\ UNCHANGED <<cryptoVars, shareVars, getVars, historyVars, codecVars, deriveVars, inflightVars>>

\* The first getSnippet has settled to got.
PasteGot(got, reply) ==
  /\ calls' = Append(calls, CallOf(paste.url.some, None, reply, got))
  /\ IF got.result.ok
       THEN /\ paste' = [paste EXCEPT !.content = Some(got.result.value.content),
                                      !.language = got.result.value.language]
            /\ pastePc' = "insert"
            /\ UNCHANGED pasteShown
     ELSE IF got.result.error = "Password required"
       THEN /\ pastePc' = "password"
            /\ UNCHANGED <<paste, pasteShown>>
     ELSE /\ pasteShown' = [kind |-> "error",
                            text |-> "Failed to fetch snippet: " \o got.result.error]
          /\ pastePc' = "done"
          /\ UNCHANGED paste
  /\ UNCHANGED pasted
  /\ UNCHANGED <<cryptoVars, shareVars, getVars, historyVars, codecVars, deriveVars, inflightVars>>

\* getSnippet(url) and what the run does with its outcome.
PasteGetSnippet(reply) ==
  /\ pastePc = "fetch"
  /\ PasteGot(getSnippet(paste.url.some, None, reply), reply)

\* The password box is answered: dismissed (None) or a text.
PasteEnterPassword(value) ==
  /\ pastePc = "password"
  /\ paste' = [paste EXCEPT !.password = value]
  /\ pastePc' = IF ~Truthy(value) THEN "done" ELSE "fetchAgain"
  /\ UNCHANGED <<calls, pasted, pasteShown>>
  /\ UNCHANGED <<cryptoVars, shareVars, getVars, historyVars, codecVars, deriveVars, inflightVars>>

\* The second getSnippet has settled to got.
PasteGotAgain(got, reply) ==
  /\ calls' = Append(calls, CallOf(paste.url.some, paste.password, reply, got))
  /\ IF got.result.ok
       THEN /\ paste' = [paste EXCEPT !.content = Some(got.result.value.content),
                                      !.language = got.result.value.language]
            /\ pastePc' = "insert"
            /\ UNCHANGED pasteShown
     ELSE /\ pasteShown' = [kind |-> "error",
                            text |-> "Failed to fetch snippet: " \o got.result.error]
          /\ pastePc' = "done"
          /\ UNCHANGED paste
  /\ UNCHANGED pasted
  /\ UNCHANGED <<cryptoVars, shareVars, getVars, historyVars, codecVars, deriveVars, inflightVars>>

\* A second getSnippet that is called once more when it fails.
PasteGetSnippetAgain_Retry(reply) ==
  /\ pastePc = "fetchAgain"
  /\ calls' = Append(calls, CallOf(paste.url.some, paste.password, reply,
                                   getSnippet(paste.url.some, paste.password, reply)))
  /\ IF getSnippet(paste.url.some, paste.password, reply).result.ok
       THEN /\ paste' = [paste EXCEPT
                           !.content = Some(getSnippet(paste.url.some, paste.password,
                                                       reply).result.value.content)]
            /\ pastePc' = "insert"
     ELSE UNCHANGED <<paste, pastePc>>
  /\ UNCHANGED <<pasted, pasteShown>>
  /\ UNCHANGED <<cryptoVars, shareVars, getVars, historyVars, codecVars, deriveVars, inflightVars>>

\* getSnippet(url, password) and what the run does with its outcome.
PasteGetSnippetAgain(reply) ==
  /\ pastePc = "fetchAgain"
  /\ PasteGotAgain(getSnippet(paste.url.some, paste.password, reply), reply)

\* The content goes to the active editor (which may be gone when
\* insertTextAtCursor looks for it) or, there being none, to a new document.
\* The two messages are written without the check mark they begin with.
PasteInsert(editor, still) ==
  /\ pastePc = "insert"
  /\ IF editor /\ still
       THEN /\ pasted' = [into |-> "editor", content |-> paste.content.some,
                          language |-> ""]
            /\ pasteShown' = [kind |-> "information", text |-> "Snippet inserted"]
     ELSE IF editor
       THEN UNCHANGED <<pasted, pasteShown>>
     ELSE /\ pasted' = [into |-> "document", content |-> paste.content.some,
                        language |-> LanguageOr(paste.language)]
          /\ pasteShown' = [kind |-> "information",
                            text |-> "Snippet opened in new tab"]
  /\ pastePc' = "done"
  /\ UNCHANGED <<paste, calls>>
  /\ UNCHANGED <<cryptoVars, shareVars, getVars, historyVars, codecVars, deriveVars, inflightVars>>

\* The command returns.
PasteReturn ==
  /\ pastePc = "done"
  /\ pastePc' = "idle"
  /\ paste' = None
  /\ calls' = <<>>
  /\ pasted' = None
  /\ pasteShown' = None
  /\ UNCHANGED <<cryptoVars, shareVars, getVars, historyVars, codecVars, deriveVars, inflightVars>>

NextPaste ==
  \/ \E clipboardContent \in Clipboards : PasteStart(clipboardContent)
  \/ \E value \in Optional(UrlInputs) : PasteEnterUrl(value)
  \/ \E reply \in Replies : PasteGetSnippet(reply)
  \/ \E value \in Optional(PastePasswords) : PasteEnterPassword(value)
  \/ \E reply \in Replies : PasteGetSnippetAgain(reply)
  \/ \E editor \in BOOLEAN, still \in BOOLEAN : PasteInsert(editor, still)
  \/ PasteReturn

SpecPaste == Init /\ [][NextPaste]_vars

\* One encryption, then decryptions of what it returned with every key,
\* password and changed envelope.
NextCrypto ==
  \/ \E content \in Plaintexts : log = <<>> /\ Encrypt(content)
  \/ \E content \in Plaintexts, password \in Passwords :
       log = <<>> /\ EncryptWithPassword(content, password)
  \/ /\ pc = "idle" /\ current # None /\ current.mode = "key"
     /\ \/ \E key \in KeyInputs : Decrypt(NoTamper, key)
        \/ \E t \in Tampers(current.encrypted) : Decrypt(t, current.key)
        \/ \E r \in Resizes({"key", "iv", "tag"}) : DecryptResized(r)
  \/ /\ pc = "idle" /\ current # None /\ current.mode = "password"
     /\ \/ \E password \in Passwords : DecryptWithPassword(NoTamper, password)
        \/ \E t \in Tampers(current.encrypted) :
             DecryptWithPassword(t, current.password)
        \/ \E r \in Resizes({"iv", "tag", "salt"}) : DecryptWithPasswordResized(r)
  \/ Resume

SpecCrypto == Init /\ [][NextCrypto]_vars

\* A run of encryptions, in either mode.
NextNonce ==
  \/ \E content \in Plaintexts : Encrypt(content)
  \/ \E content \in Plaintexts, password \in Passwords :
       EncryptWithPassword(content, password)

SpecNonce == Init /\ [][NextNonce]_vars

(***************************************************************************)
(* Claims about the encryption utilities                                   *)
(***************************************************************************)
\* The decryption in progress was given the envelope and the key (password
\* and salt) exactly as the encryption returned them.
DecryptOfCurrent ==
  /\ opened # None
  /\ opened.fn = "decrypt"
  /\ opened.encrypted = current.encrypted

DecryptWithPasswordOfCurrent ==
  /\ opened # None
  /\ opened.fn = "decryptWithPassword"
  /\ opened.encrypted = current.encrypted
  /\ opened.salt = current.salt

\* C1 as stated: for every plaintext string p, decrypt of the envelope that
\* encrypt(p) returned, with the key it returned, yields exactly p.
C1_RoundTripEveryString ==
  (DecryptOfCurrent /\ opened.key = current.key)
    => opened.result = Ok(current.content)

\* C1 amended: for every well-formed plaintext string p (no unpaired
\* surrogate code unit), decrypt(encrypt(p).encrypted, encrypt(p).key) = p.
C1_RoundTripWellFormed ==
  (DecryptOfCurrent /\ opened.key = current.key /\ IsWellFormed(current.content))
    => opened.result = Ok(current.content)

\* A text with a character outside ASCII went through encrypt and decrypt.
C1_Witness ==
  /\ DecryptOfCurrent
  /\ opened.key = current.key
  /\ IsWellFormed(current.content)
  /\ \E i \in 1..Len(current.content) : current.content[i] > 127
  /\ opened.result = Ok(current.content)

\* C6 as stated: decrypt with any key other than the one encrypt returned
\* fails with an authentication failure and returns no plaintext.
C6_OtherKeyTextFails ==
  (DecryptOfCurrent /\ opened.key # current.key)
    => opened.result = Err(AuthenticationFailure)

\* C6 amended: decrypt with a key text that decodes to other bytes than the
\* key encrypt returned fails and returns no plaintext; the failure is the
\* authentication failure when the decoded key has KEY_LENGTH bytes, and the
\* invalid-key-length error otherwise.
C6_OtherKeyBytesFail ==
  (DecryptOfCurrent /\ fromBase64Url(opened.key) # fromBase64Url(current.key))
    => opened.result =
         (IF Len(fromBase64Url(opened.key)) = KEY_LENGTH
            THEN Err(AuthenticationFailure) ELSE Err("Invalid key length"))

\* decrypt was refused a key of the right length that is not the key.
C6_Witness ==
  /\ DecryptOfCurrent
  /\ Len(fromBase64Url(opened.key)) = KEY_LENGTH
  /\ fromBase64Url(opened.key) # fromBase64Url(current.key)
  /\ opened.result = Err(AuthenticationFailure)

\* C7: when one byte of the ciphertext, the tag or the nonce of the envelope
\* is changed, decrypt with the right key (decryptWithPassword with the right
\* password and salt) fails with an authentication failure and returns no
\* plaintext.
C7_TamperFails ==
  (/\ opened # None
   /\ opened.tamper # NoTamper
   /\ opened.key = current.key
   /\ opened.password = current.password)
    => /\ opened.encrypted # current.encrypted
       /\ opened.result = Err(AuthenticationFailure)

\* A changed byte of a non-empty ciphertext was detected.
C7_Witness ==
  /\ opened # None
  /\ opened.fn = "decrypt"
  /\ opened.tamper.field = "ciphertext"
  /\ opened.result = Err(AuthenticationFailure)

\* C8 as stated: for every plaintext p and password pw,
\* decryptWithPassword of what encryptWithPassword(p, pw) returned, with pw,
\* yields exactly p.
C8_PasswordRoundTripEveryString ==
  (DecryptWithPasswordOfCurrent /\ opened.password = current.password)
    => opened.result = Ok(current.content)

\* C8 amended: the same for every well-formed plaintext p and every password
\* pw, the empty and the ill-formed ones included.
C8_PasswordRoundTripWellFormed ==
  (/\ DecryptWithPasswordOfCurrent
   /\ opened.password = current.password
   /\ IsWellFormed(current.content))
    => opened.result = Ok(current.content)

\* A non-empty text came back under the empty password.
C8_Witness ==
  /\ DecryptWithPasswordOfCurrent
  /\ opened.password = <<>>
  /\ current.password = <<>>
  /\ current.content # <<>>
  /\ opened.result = Ok(current.content)

\* C9 as stated: decryptWithPassword with any password different from pw
\* fails with an authentication failure.
C9_OtherPasswordTextFails ==
  (DecryptWithPasswordOfCurrent /\ opened.password # current.password)
    => opened.result = Err(AuthenticationFailure)

\* C9 amended: decryptWithPassword with a password whose UTF-8 bytes differ
\* from those of pw fails with an authentication failure.
C9_OtherPasswordBytesFail ==
  (/\ DecryptWithPasswordOfCurrent
   /\ Utf8Encode(opened.password) # Utf8Encode(current.password))
    => opened.result = Err(AuthenticationFailure)

\* A wrong password was refused.
C9_Witness ==
  /\ DecryptWithPasswordOfCurrent
  /\ Utf8Encode(opened.password) # Utf8Encode(current.password)
  /\ opened.result = Err(AuthenticationFailure)

\* C10: every encryption uses a nonce, and a key or salt, that no earlier
\* encryption used, of the lengths the random source is asked for; so no
\* (key, nonce) pair serves twice.
C10_FreshKeyAndNonce ==
  \A i, j \in 1..Len(log) :
    /\ Len(log[i].iv) = IV_LENGTH
    /\ Len(log[i].key) = KEY_LENGTH \/ Len(log[i].salt) = SALT_LENGTH
    /\ (i < j) =>
         /\ log[i].iv # log[j].iv
         /\ log[i].key = <<>> \/ log[i].key # log[j].key
         /\ log[i].salt = <<>> \/ log[i].salt # log[j].salt

\* Two encryptions in key mode, one after the other.
C10_Witness ==
  /\ Len(log) >= 2
  /\ log[1].key # <<>>
  /\ log[2].key # <<>>
  /\ log[1].iv # log[2].iv

(***************************************************************************)
(* The share command and the API client                                    *)
(***************************************************************************)
\* The request createSnippet has just sent.
LastRequest == requests[Len(requests)]

\* C2: only the encrypted blob is sent: the body of the POST request of a
\* share never holds the text selected in the editor as it is.
C2_BodyHoldsNoPlaintext ==
  sharePc = "awaitCreate" => LastRequest.body.content # share.selection.text

\* C3: the server never receives the password: the body of the POST request
\* of a share in password mode has no field that holds the password the user
\* entered.
C3_BodyHoldsNoPassword ==
  (sharePc = "awaitCreate" /\ share.password # None) =>
    /\ LastRequest.body.password # share.password
    /\ LastRequest.body.content # share.password.some

\* url ends in a fragment that is the URL-safe text of a key.
HasKeyFragment(url) ==
  /\ ParseUrl(url).ok
  /\ ParseUrl(url).value.hash # <<>>
  /\ Len(fromBase64Url(Tail(ParseUrl(url).value.hash))) = KEY_LENGTH

\* C4: the URL of a share that is not in password mode carries the key as its
\* fragment: the URL createSnippet returned, the one on the clipboard and the
\* one in the history.
C4_UrlCarriesKeyFragment ==
  /\ (share # None /\ share.result # None /\ share.visibility # "password") =>
       HasKeyFragment(share.result.url)
  /\ (sharePc \in {"history", "notified"} /\ share.visibility # "password") =>
       HasKeyFragment(clipboard.some)
  /\ \A i \in 1..Len(history) :
       history[i].visibility # "password" => HasKeyFragment(history[i].url)

\* The text of a key as toBase64Url writes it: A-Z, a-z, 0-9, '-' and '_'.
IsKeyText(s) ==
  \A i \in 1..Len(s) :
    \/ s[i] >= 65 /\ s[i] <= 90
    \/ s[i] >= 97 /\ s[i] <= 122
    \/ s[i] >= 48 /\ s[i] <= 57
    \/ s[i] \in {45, 95}

\* fragment is nothing, or '#' and the text of a key.
IsKeyFragment(fragment) ==
  fragment = <<>> \/ (Head(fragment) = 35 /\ IsKeyText(Tail(fragment)))

\* C5: the request getSnippet sends does not depend on the key fragment: for
\* a full URL, and for any text followed by '#' and a key, two inputs that
\* differ in the fragment only lead to the same request (host, port, path and
\* body), or both to the same error before anything is sent.
C5_RequestIndependentOfFragment ==
  (/\ fetched # None
   /\ \/ Includes(fetched.base, SchemeSeparator)
      \/ Includes(fetched.base, SnipitSh)
      \/ (/\ IsKeyFragment(SubSeq(fetched.a.idOrUrl, Len(fetched.base) + 1,
                                  Len(fetched.a.idOrUrl)))
          /\ IsKeyFragment(SubSeq(fetched.b.idOrUrl, Len(fetched.base) + 1,
                                  Len(fetched.b.idOrUrl)))))
    => fetched.a.request = fetched.b.request

\* A request is sent for an id followed by a key, and one for the same id
\* followed by another key.
C5_Witness ==
  /\ fetched # None
  /\ fetched.a.idOrUrl # fetched.b.idOrUrl
  /\ fetched.a.request.ok
  /\ fetched.b.request.ok
  /\ Len(fetched.a.idOrUrl) > Len(fetched.base) + 1
  /\ Len(fetched.b.idOrUrl) > Len(fetched.base) + 1
  /\ IsKeyFragment(SubSeq(fetched.a.idOrUrl, Len(fetched.base) + 1,
                          Len(fetched.a.idOrUrl)))
  /\ IsKeyFragment(SubSeq(fetched.b.idOrUrl, Len(fetched.base) + 1,
                          Len(fetched.b.idOrUrl)))
  /\ ~Includes(fetched.base, SchemeSeparator)
  /\ ~Includes(fetched.base, SnipitSh)

(***************************************************************************)
(* Claims about the codec                                                  *)
(***************************************************************************)
\* C11: for every byte sequence b, the empty one included (it encodes to the
\* empty text), fromBase64Url(toBase64Url(b)) = b.
C11_CodecRoundTrip ==
  (codec # None /\ codec.op = "roundTrip") =>
    /\ codec.result = Ok(codec.buffer)
    /\ codec.buffer = <<>> => codec.text = <<>>

\* Bytes whose text holds '-' and '_' and needed padding came back.
C11_Witness ==
  /\ codec # None
  /\ codec.op = "roundTrip"
  /\ Len(codec.buffer) % 3 # 0
  /\ \E i \in 1..Len(codec.text) : codec.text[i] = 45
  /\ \E i \in 1..Len(codec.text) : codec.text[i] = 95
  /\ codec.result = Ok(codec.buffer)

\* C12: fromBase64Url on a text with a character outside the URL-safe
\* base64 alphabet fails with InvalidEncoding and returns no bytes.
C12_OutsideAlphabetFails ==
  (codec # None /\ codec.op = "fromBase64Url" /\ ~IsKeyText(codec.text)) =>
    codec.result = Err("InvalidEncoding")

\* C16: what toBase64Url returns holds no '+' (43), no '/' (47) and no
\* '=' (61), whatever the bytes.
C16_NoPlusSlashPad ==
  (codec # None /\ codec.op \in {"toBase64Url", "roundTrip"}) =>
    \A i \in 1..Len(codec.text) : codec.text[i] \notin {43, 47, 61}

\* Bytes whose standard base64 text holds all three were encoded.
C16_Witness ==
  /\ codec # None
  /\ codec.op = "toBase64Url"
  /\ {43, 47, 61} \subseteq Range(Base64Encode(codec.buffer))
  /\ \A i \in 1..Len(codec.text) : codec.text[i] \notin {43, 47, 61}

(***************************************************************************)
(* Claims about the lengths of key, nonce, tag and salt                    *)
(***************************************************************************)
\* The errors the cipher throws for a length it refuses, before any byte is
\* decrypted; they stand for MalformedInput.
MalformedInput ==
  {"Invalid key length", "Invalid initialization vector",
   "Invalid authentication tag length"}

\* C13: decrypt and decryptWithPassword called with a key, a nonce, a tag or
\* a salt of another length than 32, 12, 16 and 16 bytes fail with
\* MalformedInput and return no plaintext.
C13_LengthMismatchIsMalformedInput ==
  (opened # None /\ opened.resize # NoResize) =>
    /\ ~opened.result.ok
    /\ opened.result.error \in MalformedInput

C15_FixedShapes ==
  current # None =>
    /\ Len(Base64Decode(current.encrypted.iv)) = IV_LENGTH
    /\ Len(Base64Decode(current.encrypted.tag)) = TAG_LENGTH
    /\ current.mode = "key" =>
         /\ Len(fromBase64Url(current.key)) = KEY_LENGTH
         /\ Len(generateKey(rng)) = KEY_LENGTH
    /\ current.mode = "password" =>
         /\ Len(Base64Decode(current.salt)) = SALT_LENGTH
         /\ Len(deriveKeyFromPassword(current.password, Base64Decode(current.salt)))
              = KEY_LENGTH

\* An encryption in password mode came after one in key mode.
C15_Witness ==
  /\ Len(log) >= 2
  /\ log[1].key # <<>>
  /\ current.mode = "password"
  /\ Len(Base64Decode(current.salt)) = SALT_LENGTH
  /\ Len(Base64Decode(current.encrypted.tag)) = TAG_LENGTH

\* C17: the ciphertext of an envelope has as many bytes as the plaintext has
\* in UTF-8: nothing is added and nothing is cut.
C17_CiphertextLength ==
  current # None =>
    Len(Base64Decode(current.encrypted.ciphertext)) = Len(Utf8Encode(current.content))

\* A text whose UTF-8 bytes are more than its code units was encrypted.
C17_Witness ==
  /\ current # None
  /\ Len(Utf8Encode(current.content)) > Len(current.content)
  /\ Len(Utf8Encode(current.content)) % 3 # 0
  /\ Len(Base64Decode(current.encrypted.ciphertext)) = Len(Utf8Encode(current.content))

AnsweredBurned(call) ==
  /\ MakeRequestResult(call.reply).ok
  /\ MakeRequestResult(call.reply).value.burned

\* C19: whenever the response to a call of getSnippet is marked burned, the
\* call fails with the 'burned' error, whatever content, encrypted data, salt
\* and visibility the response carries and whatever key and password the
\* call was given; neither decrypt nor decryptWithPassword is called, and
\* the run gets no content and puts nothing into an editor.
C19_BurnedFails ==
  \A i \in 1..Len(calls) :
    AnsweredBurned(calls[i]) =>
      /\ calls[i].result = Err("This snippet has been burned (already viewed)")
      /\ ~calls[i].decrypted
      /\ paste.content = None
      /\ pasted = None

\* A call with a password was answered by a burned response that carries
\* content, encrypted data and a salt.
C19_Witness ==
  /\ Len(calls) = 2
  /\ AnsweredBurned(calls[2])
  /\ Truthy(calls[2].password)
  /\ Truthy(calls[2].reply.json.content)
  /\ calls[2].reply.json.encrypted # None
  /\ Truthy(calls[2].reply.json.salt)
  /\ calls[2].reply.json.visibility = "password"

\* C20: a run of the paste command calls getSnippet at most twice; it calls
\* it a second time only when the first call, made without a password,
\* failed with exactly 'Password required' and the user then entered a
\* password that is not empty, which the second call is given for the same
\* URL; and when the second call fails the run shows the failure as an
\* error, is over, and has put nothing into an editor.
C20_NoRetry ==
  /\ Len(calls) <= 2
  /\ Len(calls) >= 1 => calls[1].password = None
  /\ Len(calls) = 2 =>
       /\ calls[1].result = Err("Password required")
       /\ Truthy(paste.password)
       /\ calls[2].password = paste.password
       /\ calls[2].idOrUrl = calls[1].idOrUrl
       /\ ~calls[2].result.ok =>
            /\ pastePc = "done"
            /\ pasted = None
            /\ pasteShown = [kind |-> "error",
                             text |-> "Failed to fetch snippet: "
                                        \o calls[2].result.error]

\* The second call was given a wrong password and failed to authenticate.
C20_Witness ==
  /\ Len(calls) = 2
  /\ calls[2].password = Some(<<97, 98, 99>>)
  /\ calls[2].decrypted
  /\ calls[2].result = Err(AuthenticationFailure)
  /\ pastePc = "done"

\* The response a call was answered by, when makeRequest resolved.
ResponseOf(call) == MakeRequestResult(call.reply).value

\* The key the call read from its URL; None when there is none.
KeyOfCall(call) == ParseIdOrUrl(call.idOrUrl).value.encryptionKey

\* The call returned content, and it is what decryptWithPassword made of the
\* encrypted data with the password the caller supplied and the salt of the
\* response.
OpenedWithPassword(call) ==
  /\ Truthy(call.password)
  /\ Truthy(ResponseOf(call).salt)
  /\ ResponseOf(call).encrypted # None
  /\ call.decrypted
  /\ decryptWithPassword(ResponseOf(call).encrypted.some, call.password.some,
                         ResponseOf(call).salt.some).ok
  /\ call.result.value.content =
       decryptWithPassword(ResponseOf(call).encrypted.some, call.password.some,
                           ResponseOf(call).salt.some).value

\* The call returned content, and it is what decrypt made of the encrypted
\* data with the key of the URL fragment.
OpenedWithKey(call) ==
  /\ KeyOfCall(call) # None
  /\ ResponseOf(call).encrypted # None
  /\ call.decrypted
  /\ decrypt(ResponseOf(call).encrypted.some, KeyOfCall(call).some).ok
  /\ call.result.value.content =
       decrypt(ResponseOf(call).encrypted.some, KeyOfCall(call).some).value

\* C21: a call of getSnippet returns content only through an authenticated
\* path: when the response has visibility 'password', only if a password was
\* supplied, a salt is present and decryptWithPassword succeeded; for the
\* other visibilities, only if the URL carried a key and decrypt succeeded.
\* In particular a response with visibility 'password' yields no content to
\* a caller without a password.
C21_AuthenticatedPathOnly ==
  \A i \in 1..Len(calls) :
    calls[i].result.ok =>
      IF ResponseOf(calls[i]).visibility = "password"
        THEN OpenedWithPassword(calls[i])
      ELSE OpenedWithKey(calls[i])

(***************************************************************************)
(* Claims about the order of a share                                       *)
(***************************************************************************)
\* Every prompt of the run has been answered: a visibility and an expiry
\* time are chosen and, for the visibility 'password', a password of at
\* least 4 characters was entered and entered again; otherwise there is no
\* password.
PromptsAnswered ==
  /\ share.visibility \in VISIBILITY_OPTIONS
  /\ share.expiry \in EXPIRY_OPTIONS
  /\ IF share.visibility = "password"
       THEN /\ share.password # None
            /\ Len(share.password.some) >= 4
            /\ share.confirmPassword = share.password
     ELSE share.password = None

\* One step of a share, as C22 wants it.
ShareStepInOrder ==
  /\ requests' # requests =>
       /\ sharePc = "upload"
       /\ PromptsAnswered
       /\ Len(requests') = Len(requests) + 1
       /\ share.result = None
  /\ (sharePc \in {"visibility", "expiry", "password", "confirm"} /\ sharePc' = "done") =>
       /\ requests' = requests
       /\ share'.result = None
  /\ sharePc \in {"visibility", "expiry", "password", "confirm", "upload"} =>
       /\ share.result = None
       /\ clipboard' = clipboard
       /\ history' = history
  /\ (sharePc = "awaitCreate" /\ share'.result = None) =>
       /\ sharePc' = "done"
       /\ clipboard' = clipboard
       /\ history' = history
       /\ requests' = requests
  /\ clipboard' # clipboard =>
       /\ share.result # None
       /\ clipboard' = Some(share.result.url)
  /\ history' # history =>
       /\ share.result # None
       /\ clipboard = Some(share.result.url)
       /\ Head(history').id = share.result.id

\* C22: createSnippet is called (its request goes out) only when the
\* visibility, the expiry time and, for the visibility 'password', the
\* password of at least 4 characters and its matching confirmation have all
\* been given; a step that cancels a prompt sends nothing and ends the run;
\* the clipboard is written and the history entry made only after
\* createSnippet resolved, the clipboard first; and when createSnippet
\* rejects the run ends with clipboard and history as they were.
C22_ShareInOrder == [][ShareStepInOrder]_vars

\* A share with a password went through to its history entry after an
\* earlier share of the session had sent its request and failed.
C22_Witness ==
  /\ sharePc = "notified"
  /\ share.visibility = "password"
  /\ Len(requests) = 2
  /\ Len(history) = 1
  /\ clipboard = Some(share.result.url)

(***************************************************************************)
(* Claims about overlapping calls of the history provider                  *)
(***************************************************************************)
\* The ids of the stored history.
StoredIds == {history[i].id : i \in 1..Len(history)}

\* The ids removeFromHistory was called with.
RemovedIds ==
  {historyLog[i].id : i \in {j \in 1..Len(historyLog) : historyLog[j].op = "remove"}}

\* The number of addToHistory calls made after call i.
AddsAfter(i) ==
  Cardinality({j \in (i + 1)..Len(historyLog) : historyLog[j].op = "add"})

\* C23: whatever calls of addToHistory and removeFromHistory overlap, no
\* update is lost: every call worked on the list the call before it had
\* stored; every item that was added, was not removed and was followed by
\* fewer adds than the size limit (so that it cannot have been trimmed) is in
\* the stored history; and no removed id is in it.
C23_NoLostUpdate ==
  /\ \A i \in 1..Len(historyLog) :
       /\ historyLog[i].read =
            IF i = 1 THEN <<>> ELSE historyLog[i - 1].written
       /\ (/\ historyLog[i].op = "add"
           /\ historyLog[i].id \notin RemovedIds
           /\ AddsAfter(i) < maxHistoryItems) =>
            historyLog[i].id \in StoredIds
  /\ historyLog # <<>> => history = historyLog[Len(historyLog)].written
  /\ StoredIds \cap RemovedIds = {}
  /\ Len(history) = Cardinality(StoredIds)

\* All calls have resumed; three of them were made while others were in
\* flight, among them an add and a remove, and an item was trimmed.
C23_Witness ==
  /\ inflight = {}
  /\ Len(historyLog) = MaxHistoryCalls
  /\ \E i, j \in 1..Len(historyLog) :
       /\ historyLog[i].op = "add"
       /\ historyLog[j].op = "remove"
       /\ historyLog[i].overlap >= 1
       /\ historyLog[j].overlap >= 2
  /\ \E i \in 1..Len(historyLog) :
       /\ historyLog[i].op = "add"
       /\ historyLog[i].id \notin RemovedIds
       /\ historyLog[i].id \notin StoredIds

====
